---- MODULE Spec2Model ----
(***************************************************************************)
(* The Compute Unit's evaluator, servers/cu/src/domain/lib/readState/      *)
(* evaluate.js: evaluateWith(env)(ctx) folds ctx.actions over ctx.state    *)
(* with the process's handler, caching one evaluation per applied          *)
(* interaction.  An evaluation suspends only while a handler call or a     *)
(* saveEvaluation call is in flight, so the model has one action per       *)
(* settlement of such a call; everything the Async chain does between two  *)
(* suspension points is part of the action.                                *)
(***************************************************************************)
EXTENDS Integers, Sequences, FiniteSets, TLC

\* Bounds of the model.
MaxActions == 3
MaxState == 1
MaxClock == 2
\* the longest interaction list two interleaved evaluations are run on
MaxConcurrent == 2

\* the longest interaction list termination is checked on
MaxSettling == 2

VARIABLES
    ctx,        \* ctx[e]: the context evaluation e was called with
    pc,         \* pc[e]: idle | ready | handling | caching | done
    acc,        \* acc[e]: the value $output last settled with
    pending,    \* handler calls and saveEvaluation calls in flight
    db,         \* evaluations saveEvaluation has stored, in order
    calls,      \* handler invocations, in order
    taps,       \* what logger.tap was given, in order
    saveErrors, \* saveEvaluation calls that rejected
    now,        \* the wall clock new Date() reads
    result      \* result[e]: what the Async of evaluation e settled with

vars == <<ctx, pc, acc, pending, db, calls, taps, saveErrors, now, result>>

Evals == {1, 2}

(***************************************************************************)
(* JavaScript values.  Objects are records; a missing property reads as    *)
(* undefined; '' is the falsy error value.                                 *)
(***************************************************************************)
undefined == -1

EmptyObj == [k \in {} |-> 0]

Truthy(v) == v # ""

prop(k, o) == IF k \in DOMAIN o THEN o[k] ELSE undefined

assoc(k, v, o) == [f \in DOMAIN o \cup {k} |-> IF f = k THEN v ELSE o[f]]

assocPath(path, v, o) ==
    assoc(path[1],
          assoc(path[2], v, IF path[1] \in DOMAIN o THEN o[path[1]] ELSE EmptyObj),
          o)

\* { ...a, ...b }
Spread(a, b) == [f \in DOMAIN a \cup DOMAIN b |-> IF f \in DOMAIN b THEN b[f] ELSE a[f]]

reduced(x) == ("@@transducer/value" :> x) @@ ("@@transducer/reduced" :> TRUE)

\* hyper-async: a settled Async
Resolved(v) == [arm |-> "Resolved", val |-> v]

Rejected(v) == [arm |-> "Rejected", val |-> v]

Unsettled == [arm |-> "Unsettled"]

(***************************************************************************)
(* The process's handler, ctx.handle(state, action, SWGlobal).  It is the  *)
(* evaluation's input: a deterministic function of state and action.  The  *)
(* action names what the process does with it:                             *)
(*   inc    a state change                                                 *)
(*   msg    messages only, no state, and a falsy result.error              *)
(*   boom   an output with result.error and nothing else                   *)
(*   boomS  an output with result.error beside a state and messages        *)
(*   trap   the call throws (a trap surfaces as an Error, which is truthy) *)
(*   halt   an output with a state and the fields of ramda's reduced()     *)
(***************************************************************************)
Actions == {"inc", "msg", "boom", "boomS", "trap", "halt"}

States == 0..MaxState

bump(state) == IF state = undefined THEN undefined ELSE (state + 1) % (MaxState + 1)

handle(state, action) ==
    CASE action = "inc"   -> Resolved([state |-> bump(state)])
      [] action = "msg"   -> Resolved([messages |-> <<"m">>, result |-> [error |-> ""]])
      [] action = "boom"  -> Resolved([result |-> [error |-> "boom"]])
      [] action = "boomS" -> Resolved([state |-> bump(state), messages |-> <<"m">>,
                                       result |-> [error |-> "boom"]])
      [] action = "trap"  -> Rejected("unreachable")
      [] action = "halt"  -> Resolved(Spread([state |-> bump(state)],
                                             reduced([output |-> "halted"])))

\* What a rejected saveEvaluation rejects with.
SaveError == [name |-> "Error", message |-> "save failed"]

(***************************************************************************)
(* evaluateWith                                                            *)
(***************************************************************************)
\* With is the arm the unwrapped value settles on: Resolved or Rejected
maybeReducedError(With, output) ==
    IF "@@transducer/reduced" \in DOMAIN output /\ output["@@transducer/reduced"]
    THEN [arm |-> With, val |-> output["@@transducer/value"]]
    ELSE Resolved(output)

\* the final output left in its reduced() wrapper
maybeResolveErrorWrapped(output) == Resolved(output)

\* the final unwrapping settling on the Rejected arm
maybeResolveErrorRejecting(output) == maybeReducedError("Rejected", output)

maybeResolveError(output) == maybeReducedError("Resolved", output)

maybeRejectError(output) == maybeReducedError("Rejected", output)

\* the initial accumulator without the caller's result
initialOutputStateOnly(c) == [state |-> c.state]

\* the reducer's first argument for the first interaction
initialOutput(c) == [state |-> c.state, result |-> c.result]

\* the thrown error under another key than result.error
mapThrownMessage(err) == Resolved(assocPath(<<"result", "message">>, err, EmptyObj))

\* Map thrown error to a result.error
mapThrown(err) == Resolved(assocPath(<<"result", "error">>, err, EmptyObj))

\* the handler's Async after .bichain(mapThrown, Resolved)
handled(h) == IF h.arm = "Rejected" THEN mapThrown(h.val) ELSE Resolved(h.val)

\* the .chain after it: a failed step rejects, an applied one defaults state
checkOutput(state, output) ==
    IF "result" \in DOMAIN output /\ "error" \in DOMAIN output.result
       /\ Truthy(output.result.error)
    THEN Rejected(output)
    ELSE Resolved(Spread([state |-> state], output))

\* of(state).chain(handle).bichain(...).chain(checkOutput), the handler settled to h
stepOutcome(state, h) ==
    LET b == handled(h)
    IN  IF b.arm = "Rejected" THEN b ELSE checkOutput(state, b.val)

\* the output passed on whether or not saveEvaluation stored it
cachedUnchecked(saved, output) == Resolved(output)

\* cacheEvaluation(...).map(() => output), saveEvaluation settled to saved
cached(saved, output) == IF saved.arm = "Rejected" THEN saved ELSE Resolved(output)

\* the evaluation keyed by where the context starts, not by its interaction
evaluationKeyedFrom(c, interaction, output, cachedAt) ==
    [sortKey |-> c.from, parent |-> c.id, action |-> interaction.action,
     output |-> output, cachedAt |-> cachedAt]

\* the evaluation with its timestamp inside the output
evaluationStamped(c, interaction, output, cachedAt) ==
    [sortKey |-> interaction.sortKey, parent |-> c.id, action |-> interaction.action,
     output |-> [f \in DOMAIN output \cup {"cachedAt"} |->
                   IF f = "cachedAt" THEN cachedAt ELSE output[f]],
     cachedAt |-> cachedAt]

\* the evaluation handed to cacheEvaluation
evaluation(c, interaction, output, cachedAt) ==
    [sortKey |-> interaction.sortKey, parent |-> c.id, action |-> interaction.action,
     output |-> output, cachedAt |-> cachedAt]

\* the error returned without reduced()
stopReduceUnwrapped(err) == Resolved(err)

\* An error was encountered, so stop reduce and return the output
stopReduce(err) == Resolved(reduced(err))

\* the reducer's last .bichain(stopReduce, Resolved)
\* a reducer that lets a rejection through as the next $output
settleSwallowed(a) == Resolved(a.val)

settle(a) == IF a.arm = "Rejected" THEN stopReduce(a.val) ELSE Resolved(a.val)

\* an error tap labelled with the first interaction's sortKey
errorTapFirst(e, c, i, val) ==
    [by |-> e, tap |-> "error", sortKey |-> c.actions[1].sortKey, val |-> val]

errorTap(e, c, i, val) ==
    [by |-> e, tap |-> "error", sortKey |-> c.actions[i].sortKey, val |-> val]

appliedTap(e, c, i, val) ==
    [by |-> e, tap |-> "applied", sortKey |-> c.actions[i].sortKey, val |-> val]

cachingTap(e, c, i, val) ==
    [by |-> e, tap |-> "caching", sortKey |-> c.actions[i].sortKey, val |-> val]

ctxSchemaParse(c) == [f \in DOMAIN c |-> c[f]]

\* the handler AoLoader builds from the process source
AoLoader(src) == <<"handle", src>>

\* the context the reduce runs in: ({ handle, ...ctx })
addHandler(c) == Spread([handle |-> AoLoader(c.src)], c)

\* the output assigned to the context the reduce ran in
finishInner(c, output) ==
    LET r == maybeResolveError(output)
    IN  [arm |-> r.arm, val |-> ctxSchemaParse(assoc("output", r.val, addHandler(c)))]

\* .chain(maybeResolveError).map(assoc('output', __, ctx)).map(ctxSchema.parse)
finish(c, output) ==
    LET r == maybeResolveError(output)
    IN  [arm |-> r.arm, val |-> ctxSchemaParse(assoc("output", r.val, c))]

(***************************************************************************)
(* The reduce from interaction i on, with $output settled to output, up to *)
(* the next handler call or the end of ctx.actions.  An interaction whose  *)
(* $output unwraps to a rejection is not handled: the rejection is tapped  *)
(* and wrapped again.                                                      *)
(***************************************************************************)
RECURSIVE Reduce(_, _, _, _, _)
Reduce(e, c, i, output, t) ==
    IF i > Len(c.actions)
    THEN [kind |-> "end", idx |-> i, output |-> output, taps |-> t]
    ELSE LET u == maybeRejectError(output)
         IN  IF u.arm = "Resolved"
             THEN [kind |-> "call", idx |-> i, output |-> output,
                   state |-> prop("state", u.val), taps |-> t]
             ELSE Reduce(e, c, i + 1, settle(u).val,
                         Append(t, errorTap(e, c, i, u.val)))

\* Run evaluation e on from interaction i: call the handler or settle.
Continue(e, i, output, t, rest) ==
    LET d == Reduce(e, ctx[e], i, output, t)
    IN  /\ taps' = taps \o d.taps
        /\ acc' = [acc EXCEPT ![e] = d.output]
        /\ IF d.kind = "call"
           THEN /\ pending' = rest \cup {[by |-> e, op |-> "handle", idx |-> d.idx,
                                          state |-> d.state]}
                /\ calls' = Append(calls, [by |-> e,
                                           sortKey |-> ctx[e].actions[d.idx].sortKey,
                                           state |-> d.state,
                                           action |-> ctx[e].actions[d.idx].action])
                /\ pc' = [pc EXCEPT ![e] = "handling"]
                /\ result' = result
           ELSE /\ pending' = rest
                /\ calls' = calls
                /\ pc' = [pc EXCEPT ![e] = "done"]
                /\ result' = [result EXCEPT ![e] = finish(ctx[e], d.output)]

\* evaluateWith(env)(ctx) is forked
Start(e) ==
    /\ pc[e] = "ready"
    /\ Continue(e, 1, initialOutput(addHandler(ctx[e])), <<>>, pending)
    /\ UNCHANGED <<ctx, db, saveErrors, now>>

\* the handler call of evaluation e settles with a failed step
StepFails(e) ==
    \E p \in pending :
        /\ p.by = e /\ p.op = "handle"
        /\ LET it == ctx[e].actions[p.idx]
               s  == stepOutcome(p.state, handle(p.state, it.action))
           IN  /\ s.arm = "Rejected"
               /\ Continue(e, p.idx + 1, settle(s).val,
                           <<errorTap(e, ctx[e], p.idx, s.val)>>, pending \ {p})
        /\ UNCHANGED <<ctx, db, saveErrors, now>>

\* the handler call of evaluation e settles with an applied step
StepApplied(e) ==
    \E p \in pending :
        /\ p.by = e /\ p.op = "handle"
        /\ LET it == ctx[e].actions[p.idx]
               s  == stepOutcome(p.state, handle(p.state, it.action))
               ev == evaluation(ctx[e], it, s.val, now)
           IN  /\ s.arm = "Resolved"
               /\ taps' = taps \o <<appliedTap(e, ctx[e], p.idx, s.val),
                                    cachingTap(e, ctx[e], p.idx, ev)>>
               /\ pending' = (pending \ {p}) \cup
                                {[by |-> e, op |-> "save", idx |-> p.idx,
                                  evaluation |-> ev, output |-> s.val]}
               /\ acc' = acc
               /\ pc' = [pc EXCEPT ![e] = "caching"]
        /\ \E t \in {now, IF now < MaxClock THEN now + 1 ELSE now} : now' = t
        /\ UNCHANGED <<ctx, db, calls, saveErrors, result>>

\* saveEvaluation resolves: the evaluation is stored and the fold goes on
SaveResolves(e) ==
    \E p \in pending :
        /\ p.by = e /\ p.op = "save"
        /\ db' = Append(db, [by |-> e, evaluation |-> p.evaluation])
        /\ Continue(e, p.idx + 1, settle(cached(Resolved(TRUE), p.output)).val, <<>>,
                    pending \ {p})
        /\ UNCHANGED <<ctx, saveErrors, now>>

\* saveEvaluation rejects: nothing is stored
SaveRejects(e) ==
    \E p \in pending :
        /\ p.by = e /\ p.op = "save"
        /\ saveErrors' = saveErrors \cup {[by |-> e, sortKey |-> p.evaluation.sortKey]}
        /\ Continue(e, p.idx + 1, settle(cached(Rejected(SaveError), p.output)).val, <<>>,
                    pending \ {p})
        /\ UNCHANGED <<ctx, db, now>>

Step(e) == Start(e) \/ StepFails(e) \/ StepApplied(e) \/ SaveResolves(e) \/ SaveRejects(e)

\* ctx.actions: interactions in increasing sortKey order
Interactions(n) ==
    {[i \in 1..n |-> [sortKey |-> i, action |-> a[i]]] : a \in [1..n -> Actions]}

\* ctx.state: where the evaluation starts
StartStates == {0, MaxState}

\* ctx.result: whatever the caller passes, an empty result or an earlier one
Results == {EmptyObj, [output |-> "earlier"]}

Contexts ==
    {[id |-> "p1", from |-> 0, src |-> "wasm", state |-> s, result |-> r,
      actions |-> l] :
        s \in StartStates, r \in Results,
        l \in UNION {Interactions(n) : n \in 0..MaxActions}}

Init ==
    /\ ctx \in [Evals -> Contexts]
    /\ ctx[2] = ctx[1]
    /\ pc = [e \in Evals |-> IF e = 1 THEN "ready" ELSE "idle"]
    /\ acc = [e \in Evals |-> EmptyObj]
    /\ pending = {}
    /\ db = <<>>
    /\ calls = <<>>
    /\ taps = <<>>
    /\ saveErrors = {}
    /\ now = 0
    /\ result = [e \in Evals |-> Unsettled]

\* one evaluation
Next == Step(1)

Spec == Init /\ [][Next]_vars

(***************************************************************************)
(* A second evaluation, called once the first has settled.                 *)
(***************************************************************************)
\* the same context is evaluated again
Rerun ==
    /\ pc[1] = "done" /\ pc[2] = "idle"
    /\ ctx' = [ctx EXCEPT ![2] = ctx[1]]
    /\ pc' = [pc EXCEPT ![2] = "ready"]
    /\ UNCHANGED <<acc, pending, db, calls, taps, saveErrors, now, result>>

\* the context that resumes c from its cached evaluation ev: the cached state,
\* and the interactions after ev's sortKey
resumed(c, ev) ==
    [c EXCEPT !.state = ev.output.state,
              !.from = ev.sortKey,
              !.actions = SelectSeq(c.actions, LAMBDA a : a.sortKey > ev.sortKey)]

\* the process is evaluated again from a cached evaluation
Resume ==
    /\ pc[1] = "done" /\ pc[2] = "idle"
    /\ \E j \in 1..Len(db) :
          /\ db[j].by = 1
          /\ ctx' = [ctx EXCEPT ![2] = resumed(ctx[1], db[j].evaluation)]
    /\ pc' = [pc EXCEPT ![2] = "ready"]
    /\ UNCHANGED <<acc, pending, db, calls, taps, saveErrors, now, result>>

\* two evaluations of the same context, one after the other
NextTwo == Step(1) \/ Rerun \/ Step(2)

SpecTwo == Init /\ [][NextTwo]_vars

\* an evaluation, then one resumed from its cache
NextResume == Step(1) \/ Resume \/ Step(2)

SpecResume == Init /\ [][NextResume]_vars

\* every handler call and every saveEvaluation call eventually settles
InitSettling == Init /\ Len(ctx[1].actions) <= MaxSettling

SpecSettling == InitSettling /\ [][Next]_vars /\ WF_vars(Step(1))

\* the same context is evaluated a second time while the first evaluation runs
Concur ==
    /\ pc[1] # "done" /\ pc[2] = "idle"
    /\ Len(ctx[1].actions) <= MaxConcurrent
    /\ ctx' = [ctx EXCEPT ![2] = ctx[1]]
    /\ pc' = [pc EXCEPT ![2] = "ready"]
    /\ UNCHANGED <<acc, pending, db, calls, taps, saveErrors, now, result>>

\* two evaluations of the same context, interleaved at their suspension points
NextConcurrent == Step(1) \/ Concur \/ Step(2)

SpecConcurrent == Init /\ [][NextConcurrent]_vars

(***************************************************************************)
(* What the properties speak of.                                           *)
(***************************************************************************)
CallsOf(e) == SelectSeq(calls, LAMBDA c : c.by = e)

RecordsOf(e) == SelectSeq(db, LAMBDA r : r.by = e)

InFlight(e) == {p \in pending : p.by = e}

\* the handler calls of e that have settled
NSettled(e) ==
    Len(CallsOf(e)) - (IF \E p \in InFlight(e) : p.op = "handle" THEN 1 ELSE 0)

\* the handler traps, or returns an output with a truthy result.error
HandlerFails(state, action) ==
    LET h == handle(state, action)
    IN  \/ h.arm = "Rejected"
        \/ /\ "result" \in DOMAIN h.val
           /\ "error" \in DOMAIN h.val.result
           /\ h.val.result.error # ""

\* the output of a failed step
FailureOutput(state, action) ==
    LET h == handle(state, action)
    IN  IF h.arm = "Rejected" THEN [result |-> [error |-> h.val]] ELSE h.val

\* the k-th handler call of e has settled, and failed
FailedAt(e, k) ==
    /\ k \in 1..NSettled(e)
    /\ HandlerFails(CallsOf(e)[k].state, CallsOf(e)[k].action)

\* the state after the first n interactions of c, all applied:
\* the handler's state, or the state before when its output has none
RECURSIVE StateAfter(_, _)
StateAfter(c, n) ==
    IF n = 0 THEN c.state
    ELSE LET h == handle(StateAfter(c, n - 1), c.actions[n].action)
         IN  IF "state" \in DOMAIN h.val THEN h.val.state ELSE StateAfter(c, n - 1)

(***************************************************************************)
(* C1: a step whose handler traps or returns a truthy result.error         *)
(* produces exactly one persisted evaluation, for that interaction's       *)
(* sortKey and carrying the error output, and none is persisted for a      *)
(* later interaction.                                                      *)
(***************************************************************************)
C1_ErrorContainment ==
    \A e \in Evals : \A k \in 1..Len(CallsOf(e)) :
        (pc[e] = "done" /\ FailedAt(e, k)) =>
            LET c == CallsOf(e)[k]
            IN  /\ Cardinality({j \in 1..Len(db) :
                        /\ db[j].by = e
                        /\ db[j].evaluation.sortKey = c.sortKey
                        /\ db[j].evaluation.output = FailureOutput(c.state, c.action)}) = 1
                /\ \A j \in 1..Len(db) :
                        db[j].by = e => db[j].evaluation.sortKey <= c.sortKey

(***************************************************************************)
(* C2: the handler is invoked once for each interaction, in list order,    *)
(* up to and including the first failed step, and for none after it.       *)
(***************************************************************************)
C2_ShortCircuit ==
    \A e \in Evals :
        LET cs == CallsOf(e)
        IN  /\ Len(cs) <= Len(ctx[e].actions)
            /\ \A j \in 1..Len(cs) :
                  /\ cs[j].sortKey = ctx[e].actions[j].sortKey
                  /\ cs[j].action = ctx[e].actions[j].action
            /\ \A j \in 1..Len(cs) :
                  HandlerFails(cs[j].state, cs[j].action) => j = Len(cs)

C2_Witness ==
    /\ pc[1] = "done"
    /\ Len(CallsOf(1)) = 2
    /\ Len(ctx[1].actions) = 3
    /\ FailedAt(1, 2)

(***************************************************************************)
(* C3: when step k fails, the state the evaluation's result reports is     *)
(* the state of the last applied step before k (the start state if none).  *)
(***************************************************************************)
C3_FailedStepKeepsState ==
    \A e \in Evals : \A k \in 1..Len(CallsOf(e)) :
        (pc[e] = "done" /\ FailedAt(e, k)) =>
            prop("state", result[e].val.output) = StateAfter(ctx[e], k - 1)

(***************************************************************************)
(* C4: when a handler call fails, the evaluation resolves, and its output  *)
(* is the failed step's output, out of its reduced() wrapper.              *)
(***************************************************************************)
C4_FailureIsAValue ==
    \A e \in Evals : \A k \in 1..Len(CallsOf(e)) :
        (pc[e] = "done" /\ FailedAt(e, k)) =>
            /\ result[e].arm = "Resolved"
            /\ result[e].val.output
                  = FailureOutput(CallsOf(e)[k].state, CallsOf(e)[k].action)

C4_Witness ==
    /\ pc[1] = "done"
    /\ FailedAt(1, 2)
    /\ Len(ctx[1].actions) = 3
    /\ result[1].arm = "Resolved"
    /\ result[1].val.output = [result |-> [error |-> "boom"]]

\* the handler call throws
Traps(state, action) == handle(state, action).arm = "Rejected"

(***************************************************************************)
(* C5: a handler call that throws with reason r becomes the output         *)
(* { result: { error: r } } for everything that sees it (the error tap,    *)
(* the result), and the step is then what a step returning that output     *)
(* is: failed, the last one handled, with the evaluation resolved.         *)
(***************************************************************************)
C5_ThrowBecomesErrorOutput ==
    /\ \A s \in States \cup {undefined} : \A a \in Actions :
          Traps(s, a) =>
             LET out == [result |-> [error |-> handle(s, a).val]]
             IN  /\ handled(handle(s, a)) = Resolved(out)
                 /\ stepOutcome(s, handle(s, a)) = stepOutcome(s, Resolved(out))
    /\ \A e \in Evals : \A k \in 1..NSettled(e) :
          LET c   == CallsOf(e)[k]
              out == [result |-> [error |-> handle(c.state, c.action).val]]
          IN  Traps(c.state, c.action) =>
                /\ k = Len(CallsOf(e))
                /\ \E j \in 1..Len(taps) :
                      taps[j] = [by |-> e, tap |-> "error", sortKey |-> c.sortKey,
                                 val |-> out]
                /\ \A j \in 1..Len(taps) :
                      (taps[j].by = e /\ taps[j].sortKey >= c.sortKey)
                          => (taps[j].tap = "error" /\ taps[j].val = out)
                /\ pc[e] = "done"
                /\ result[e] = Resolved(assoc("output", out, ctx[e]))

C5_Witness ==
    /\ pc[1] = "done"
    /\ Len(CallsOf(1)) = 2
    /\ Len(ctx[1].actions) = 3
    /\ Traps(CallsOf(1)[2].state, CallsOf(1)[2].action)
    /\ result[1].val.output = [result |-> [error |-> "unreachable"]]

(***************************************************************************)
(* C6: the effective output of an applied step (persisted, passed on, and  *)
(* returned if the step is the last) has the handler's state, or the state *)
(* the handler was called with when its output has none, and the next      *)
(* interaction's handler is called with that state.                        *)
(***************************************************************************)
C6_StateCarryForward ==
    \A e \in Evals :
        LET cs == CallsOf(e)
            rs == RecordsOf(e)
            n  == Len(ctx[e].actions)
        IN  /\ \A j \in 1..Len(rs) : rs[j].evaluation.output.state = StateAfter(ctx[e], j)
            /\ \A j \in 1..Len(cs) : cs[j].state = StateAfter(ctx[e], j - 1)
            /\ (pc[e] = "done" /\ Len(rs) < n) => Len(cs) > Len(rs)
            /\ (pc[e] = "done" /\ n > 0 /\ Len(rs) = n) =>
                  result[e].val.output = rs[n].evaluation.output

(***************************************************************************)
(* C7: the handler call for interaction N+1 starts only after the          *)
(* saveEvaluation call for interaction N has resolved, and an evaluation   *)
(* has at most one handler call or cache write in flight.                  *)
(***************************************************************************)
C7_SequentialFold ==
    \A e \in Evals :
        LET cs == CallsOf(e)
        IN  /\ Cardinality(InFlight(e)) <= 1
            /\ \A j \in 2..Len(cs) :
                  /\ \E r \in 1..Len(db) :
                        /\ db[r].by = e
                        /\ db[r].evaluation.sortKey = ctx[e].actions[j - 1].sortKey
                  /\ [by |-> e, sortKey |-> ctx[e].actions[j - 1].sortKey] \notin saveErrors
                  /\ cs[j].sortKey = ctx[e].actions[j].sortKey

C7_Witness ==
    /\ pc[1] = "handling"
    /\ Len(CallsOf(1)) = 3
    /\ Len(RecordsOf(1)) = 2
    /\ Cardinality(pending) = 1

(***************************************************************************)
(* C10: the sortKeys with a persisted evaluation are at every moment a     *)
(* prefix of the interaction list, persisted in increasing order.          *)
(***************************************************************************)
C10_PrefixMonotonicity ==
    \A e \in Evals :
        LET rs == RecordsOf(e)
        IN  /\ Len(rs) <= Len(ctx[e].actions)
            /\ \A j \in 1..Len(rs) :
                  rs[j].evaluation.sortKey = ctx[e].actions[j].sortKey
            /\ \A j \in 2..Len(rs) :
                  rs[j - 1].evaluation.sortKey < rs[j].evaluation.sortKey

C10_Witness ==
    /\ pc[1] = "done"
    /\ Len(RecordsOf(1)) = 1
    /\ Len(ctx[1].actions) = 3
    /\ saveErrors = {[by |-> 1, sortKey |-> 2]}

\* the persisted evaluations of e, without cachedAt
Persisted(e) ==
    [j \in 1..Len(RecordsOf(e)) |->
        LET ev == RecordsOf(e)[j].evaluation
        IN  [sortKey |-> ev.sortKey, parent |-> ev.parent, action |-> ev.action,
             output |-> ev.output]]

\* what the handler of e was called with
Handled(e) ==
    [j \in 1..Len(CallsOf(e)) |->
        [sortKey |-> CallsOf(e)[j].sortKey, state |-> CallsOf(e)[j].state,
         action |-> CallsOf(e)[j].action]]

IsPrefix(a, b) == Len(a) <= Len(b) /\ \A j \in 1..Len(a) : a[j] = b[j]

C9_CacheEquivalence ==
    (pc[1] = "done" /\ pc[2] = "done" /\ saveErrors = {}) =>
        /\ result[1].val.output = result[2].val.output
        /\ prop("state", result[1].val.output) = prop("state", result[2].val.output)

(***************************************************************************)
(* C11: two concurrent evaluations of the same process and interactions,   *)
(* against an empty cache, make one fold (every interaction is handled     *)
(* once in total) and leave one evaluation per sortKey in the cache.       *)
(***************************************************************************)
C11_SingleFlight ==
    (pc[1] = "done" /\ pc[2] = "done" /\ ctx[2] = ctx[1]) =>
        \A i \in 1..Len(ctx[1].actions) :
            LET k == ctx[1].actions[i].sortKey
            IN  /\ Cardinality({j \in 1..Len(calls) : calls[j].sortKey = k}) <= 1
                /\ Cardinality({j \in 1..Len(db) : db[j].evaluation.sortKey = k}) <= 1

\* saveEvaluation was called by e
SaveCalls(e) == {j \in 1..Len(taps) : taps[j].by = e /\ taps[j].tap = "caching"}

(***************************************************************************)
(* C12: with no interactions the handler is not invoked, saveEvaluation is *)
(* not called, and the evaluation resolves with                            *)
(* output = { state: start state, result: {} }.                            *)
(***************************************************************************)
C12_EmptyAsClaimed ==
    \A e \in Evals :
        (pc[e] = "done" /\ ctx[e].actions = <<>>) =>
            /\ CallsOf(e) = <<>>
            /\ SaveCalls(e) = {}
            /\ RecordsOf(e) = <<>>
            /\ result[e].arm = "Resolved"
            /\ result[e].val.output = [state |-> ctx[e].state, result |-> EmptyObj]

(***************************************************************************)
(* C12, with the result the caller passed: with no interactions the        *)
(* handler is not invoked, saveEvaluation is not called, and the           *)
(* evaluation resolves with output = { state: ctx.state,                   *)
(* result: ctx.result }.                                                   *)
(***************************************************************************)
C12_Empty ==
    \A e \in Evals :
        (pc[e] = "done" /\ ctx[e].actions = <<>>) =>
            /\ CallsOf(e) = <<>>
            /\ SaveCalls(e) = {}
            /\ RecordsOf(e) = <<>>
            /\ result[e].arm = "Resolved"
            /\ result[e].val.output = [state |-> ctx[e].state, result |-> ctx[e].result]

C12_Witness ==
    /\ pc[1] = "done"
    /\ ctx[1].actions = <<>>
    /\ ctx[1].result # EmptyObj
    /\ result[1].val.output = [state |-> ctx[1].state, result |-> ctx[1].result]

\* saveEvaluation rejected for interaction k of evaluation e
SaveFailedAt(e, k) == [by |-> e, sortKey |-> k] \in saveErrors

(***************************************************************************)
(* C13: when saveEvaluation fails for a step whose handler succeeded, the  *)
(* evaluation is rejected, and does not resolve with the save failure as   *)
(* its output.                                                             *)
(***************************************************************************)
C13_SaveFailureAborts ==
    \A e \in Evals : \A i \in 1..Len(ctx[e].actions) :
        (pc[e] = "done" /\ SaveFailedAt(e, ctx[e].actions[i].sortKey)) =>
            /\ result[e].arm = "Rejected"
            /\ result[e].val.output # SaveError

(***************************************************************************)
(* C14: if saveEvaluation fails for the record of interaction N, the       *)
(* evaluation never invokes the handler for an interaction after N and     *)
(* persists no record for an interaction after N (nor for N).              *)
(***************************************************************************)
C14_PersistBeforeAdvancing ==
    \A e \in Evals : \A i \in 1..Len(ctx[e].actions) :
        LET k == ctx[e].actions[i].sortKey
        IN  SaveFailedAt(e, k) =>
                /\ \A j \in 1..Len(calls) : calls[j].by = e => calls[j].sortKey <= k
                /\ \A j \in 1..Len(db) : db[j].by = e => db[j].evaluation.sortKey < k
                /\ InFlight(e) = {}

C14_Witness ==
    /\ pc[1] = "done"
    /\ Len(ctx[1].actions) = MaxActions
    /\ SaveFailedAt(1, ctx[1].actions[2].sortKey)
    /\ Len(CallsOf(1)) = 2
    /\ Len(RecordsOf(1)) = 1

\* the effective output of a successful step: { state, ...output }
EffectiveOutput(state, action) == Spread([state |-> state], handle(state, action).val)

\* no handler call and no saveEvaluation call of e failed
AllSuccessful(e) ==
    /\ \A k \in 1..Len(CallsOf(e)) : ~FailedAt(e, k)
    /\ \A se \in saveErrors : se.by # e

(***************************************************************************)
(* C15: the record persisted for a successful step on interaction i has    *)
(* i's sortKey, the evaluated process's id, i's action and the step's      *)
(* effective output; the state in that output is the state the handler is  *)
(* called with for the next interaction; and the output of the last record *)
(* of an all-successful evaluation is the evaluation's returned output.    *)
(***************************************************************************)
C15_RecordContents ==
    \A e \in Evals :
        LET cs == CallsOf(e)
            rs == RecordsOf(e)
        IN  /\ \A j \in 1..Len(rs) :
                  LET ev == rs[j].evaluation
                      it == ctx[e].actions[j]
                  IN  /\ ev.sortKey = it.sortKey
                      /\ ev.parent = ctx[e].id
                      /\ ev.action = it.action
                      /\ ev.output = EffectiveOutput(cs[j].state, it.action)
                      /\ j < Len(cs) => cs[j + 1].state = ev.output.state
            /\ (pc[e] = "done" /\ AllSuccessful(e) /\ Len(rs) > 0) =>
                  result[e].val.output = rs[Len(rs)].evaluation.output

\* what an error-only output is
ErrorOnly(output) ==
    /\ "result" \in DOMAIN output
    /\ "error" \in DOMAIN output.result
    /\ DOMAIN output \cap {"state", "messages", "spawns", "output"} = {}

(***************************************************************************)
(* C16: the output an evaluation surfaces for a failed step, and any       *)
(* record of that step, is error-only: it has result.error and none of the *)
(* state, messages, spawns or output the failing call returned with it.    *)
(***************************************************************************)
C16_FailureOutputErrorOnly ==
    \A e \in Evals : \A k \in 1..Len(CallsOf(e)) :
        (pc[e] = "done" /\ FailedAt(e, k)) =>
            /\ ErrorOnly(result[e].val.output)
            /\ \A j \in 1..Len(db) :
                  (db[j].by = e /\ db[j].evaluation.sortKey = CallsOf(e)[k].sortKey) =>
                      ErrorOnly(db[j].evaluation.output)

\* a caller's context that already has an output
WithOutput(c) == assoc("output", [state |-> c.state], c)

\* c with output as its output field, and nothing else touched
Framed(c, output) ==
    [f \in DOMAIN c \cup {"output"} |-> IF f = "output" THEN output ELSE c[f]]

(***************************************************************************)
(* C17: the value an evaluation resolves with is the caller's context with *)
(* the one field output added, or replaced, by the final output: every     *)
(* other field is returned as it was, no other field is added, and the     *)
(* caller's context is never changed.                                      *)
(***************************************************************************)
C17_Frame ==
    /\ [](\A e \in Evals :
            pc[e] = "done" =>
                /\ DOMAIN result[e].val = DOMAIN ctx[e] \cup {"output"}
                /\ \A f \in DOMAIN ctx[e] : result[e].val[f] = ctx[e][f]
                /\ finish(WithOutput(ctx[e]), reduced(result[e].val.output)).val
                      = Framed(WithOutput(ctx[e]), result[e].val.output))
    /\ [][\A e \in Evals : pc[e] # "idle" => ctx'[e] = ctx[e]]_vars

C17_Witness ==
    /\ pc[1] = "done"
    /\ Len(CallsOf(1)) = MaxActions
    /\ "output" \notin DOMAIN ctx[1]
    /\ result[1].val = Framed(ctx[1], result[1].val.output)

SaveCallsFor(e, k) == {j \in SaveCalls(e) : taps[j].sortKey = k}

(***************************************************************************)
(* C19: when saveEvaluation fails for a step, the same record is written   *)
(* again before the evaluation gives up: saveEvaluation is called more     *)
(* than once for an interaction whose first write failed.                  *)
(***************************************************************************)
C19_SaveRetried ==
    \A e \in Evals : \A i \in 1..Len(ctx[e].actions) :
        LET k == ctx[e].actions[i].sortKey
        IN  (pc[e] = "done" /\ SaveFailedAt(e, k)) =>
                Cardinality(SaveCallsFor(e, k)) > 1

\* the handler's output for the j-th call of e carries a truthy
\* '@@transducer/reduced'
CarriesSentinel(e, j) ==
    LET h == handle(CallsOf(e)[j].state, CallsOf(e)[j].action).val
    IN  "@@transducer/reduced" \in DOMAIN h /\ h["@@transducer/reduced"]

(***************************************************************************)
(* C20: the fold halts only because of a failure.  After every successful  *)
(* step whose record was persisted, the next interaction's handler is      *)
(* invoked with that step's effective state; a successful output carrying  *)
(* a truthy '@@transducer/reduced' does not stop the fold, and its         *)
(* '@@transducer/value' does not become the evaluation's output.           *)
(***************************************************************************)
C20_HaltsOnlyOnFailure ==
    \A e \in Evals :
        LET cs == CallsOf(e)
            rs == RecordsOf(e)
        IN  pc[e] = "done" =>
                \A j \in 1..Len(rs) :
                    /\ j < Len(ctx[e].actions) =>
                          /\ Len(cs) > j
                          /\ cs[j + 1].sortKey = ctx[e].actions[j + 1].sortKey
                          /\ cs[j + 1].state = rs[j].evaluation.output.state
                    /\ CarriesSentinel(e, j) =>
                          result[e].val.output # rs[j].evaluation.output["@@transducer/value"]

\* the invocations by e of one of the logging taps, in order
TapsOf(e, tap) == SelectSeq(taps, LAMBDA t : t.by = e /\ t.tap = tap)

(***************************************************************************)
(* C21: in an evaluation of n interactions whose step k fails, the success *)
(* tap is invoked once for each of the k-1 successful steps, with the      *)
(* step's output, and the error tap is invoked once for the failing        *)
(* interaction and once for each of the n-k interactions after it, each    *)
(* time with the same failure output under that interaction's sortKey,     *)
(* though none of them is handled; the failure output the taps saw is the  *)
(* evaluation's output.                                                    *)
(***************************************************************************)
C21_TapsPerOutcome ==
    \A e \in Evals : \A k \in 1..Len(CallsOf(e)) :
        (pc[e] = "done" /\ FailedAt(e, k)) =>
            LET cs == CallsOf(e)
                n  == Len(ctx[e].actions)
                f  == FailureOutput(cs[k].state, cs[k].action)
            IN  /\ TapsOf(e, "applied") =
                      [j \in 1..(k - 1) |->
                          [by |-> e, tap |-> "applied",
                           sortKey |-> ctx[e].actions[j].sortKey,
                           val |-> EffectiveOutput(cs[j].state, cs[j].action)]]
                /\ TapsOf(e, "error") =
                      [j \in 1..(n - k + 1) |->
                          [by |-> e, tap |-> "error",
                           sortKey |-> ctx[e].actions[k + j - 1].sortKey, val |-> f]]
                /\ Len(cs) = k
                /\ result[e].val.output = f

C21_Witness ==
    /\ pc[1] = "done"
    /\ Len(ctx[1].actions) = MaxActions
    /\ FailedAt(1, 2)
    /\ Len(TapsOf(1, "applied")) = 1
    /\ Len(TapsOf(1, "error")) = MaxActions - 1

====
